---- MODULE Spec2Model ----
(***************************************************************************)
(* Model of main.py: the S3 -> Marker OCR batch loop.                      *)
(*   download_pdfs        lists the bucket and fetches missing PDFs        *)
(*   ocr_with_marker      converts one PDF and writes markdown + images    *)
(*   check_and_clear_vram reclaims accelerator memory above a threshold    *)
(*   main                 discovery, then convert/guard per document       *)
(* Strings that the code takes apart (keys, paths) are sequences of        *)
(* one-character strings; the file systems persist across process runs.    *)
(***************************************************************************)
EXTENDS Integers, Sequences, FiniteSets, TLC

\* ------------------------------------------------------------------ bounds
MaxListing == 4      \* most keys the bucket holds
MaxKeys == 3         \* most keys one list_objects_v2 response carries
MaxRuns == 2         \* process runs against the same directories

\* --------------------------------------------------------------- constants
TotalMemory == 200   \* total_memory of device 0, in units
ThresholdPct == 66   \* usage_ratio > 0.66

\* ------------------------------------------------------------ string model
UpperCase == <<"A","B","C","D","E","F","G","H","I","J","K","L","M",
               "N","O","P","Q","R","S","T","U","V","W","X","Y","Z">>
LowerCase == <<"a","b","c","d","e","f","g","h","i","j","k","l","m",
               "n","o","p","q","r","s","t","u","v","w","x","y","z">>

LowerChar(c) ==
    IF \E n \in 1..26 : UpperCase[n] = c
    THEN LowerCase[CHOOSE n \in 1..26 : UpperCase[n] = c]
    ELSE c

\* str.lower()
Lower(s) == [n \in 1..Len(s) |-> LowerChar(s[n])]

\* str.endswith(suffix)
EndsWith(s, suffix) ==
    /\ Len(s) >= Len(suffix)
    /\ SubSeq(s, Len(s) - Len(suffix) + 1, Len(s)) = suffix

SetMax(S) == CHOOSE m \in S : \A n \in S : n <= m

\* os.path.basename(p): what follows the last separator
Basename(p) ==
    LET seps == {n \in 1..Len(p) : p[n] = "/"}
    IN  IF seps = {} THEN p ELSE SubSeq(p, SetMax(seps) + 1, Len(p))

\* os.path.splitext(name)[0] for a name without separators: cut at the last
\* dot unless only dots precede it
SplitextRoot(name) ==
    LET dots == {n \in 1..Len(name) : name[n] = "."}
    IN  IF dots = {} THEN name
        ELSE LET d == SetMax(dots)
             IN  IF \E n \in 1..(d - 1) : name[n] # "."
                 THEN SubSeq(name, 1, d - 1)
                 ELSE name

\* os.path.join(a, b)
Join(a, b) ==
    IF Len(b) > 0 /\ b[1] = "/" THEN b
    ELSE IF Len(a) = 0 \/ a[Len(a)] = "/" THEN a \o b
    ELSE a \o <<"/">> \o b

\* ------------------------------------------------------------------ config
LOCAL_PDF_DIR == <<"/", "w", "/", "p", "d", "f", "s">>
OUTPUT_DIR == <<"/", "w", "/", "o", "c", "r">>
DotPdf == <<".", "p", "d", "f">>
DotMd == <<".", "m", "d">>

\* -------------------------------------------------------- the object store
KeyA == <<"a", ".", "p", "d", "f">>
KeyB == <<"b", ".", "P", "D", "F">>
KeyC == <<"c", ".", "t", "x", "t">>
KeyDA == <<"d", "/", "a", ".", "p", "d", "f">>
Keys == {KeyA, KeyB, KeyC, KeyDA}

\* listings: sequences of distinct keys, in any order the store may return
Listings ==
    {l \in UNION {[1..n -> Keys] : n \in 0..MaxListing} :
        \A m, n \in 1..Len(l) : m # n => l[m] # l[n]}

\* one list_objects_v2 response: at most MaxKeys keys, the first page
FirstPage(l) == SubSeq(l, 1, IF Len(l) < MaxKeys THEN Len(l) ELSE MaxKeys)

\* --------------------------------------------------------------- the engine
Img1 == <<"i", "1">>
Img2 == <<"i", "2">>
Rendered1 == [text |-> "T1", images |-> (Img1 :> "B1")]
Rendered2 == [text |-> "T2", images |-> (Img2 :> "B2")]
Renderings == {Rendered1, Rendered2}
NoRendering == [text |-> "", images |-> <<>>]

\* reserved memory the accelerator may show after a conversion
Levels == {100, 180}

VARIABLES
    pc,         \* position of the process
    run,        \* number of the process run
    cuda,       \* torch.cuda.is_available()
    reserved,   \* torch.cuda.memory_reserved(0)
    listing,    \* keys under the prefix, in store order
    contents,   \* response["Contents"] of this run
    idx,        \* position of the for loop over contents
    pdfs,       \* pdf_files / pdfs
    i,          \* position of the for loop over pdfs
    local,      \* LOCAL_PDF_DIR: path -> key whose bytes it holds
    outfs,      \* OUTPUT_DIR: directory -> (file path -> content)
    log,        \* calls and printed lines of this run, in order
    reclaimed,  \* whether the last guard call cleared the cache
    prev        \* result of the previous run's download_pdfs

vars == <<pc, run, cuda, reserved, listing, contents, idx, pdfs, i,
          local, outfs, log, reclaimed, prev>>

Ev(op, arg, ok, res) == [op |-> op, arg |-> arg, ok |-> ok, res |-> res]
Call(op, arg, ok) == Ev(op, arg, ok, NoRendering)
Say(msg, arg) == Ev(msg, arg, TRUE, NoRendering)

NoPrev == [valid |-> FALSE, pdfs |-> <<>>, clean |-> FALSE]

Init ==
    /\ pc = "setup"
    /\ run = 1
    /\ cuda \in BOOLEAN
    /\ reserved = 100
    /\ listing \in Listings
    /\ contents = <<>>
    /\ idx = 1
    /\ pdfs = <<>>
    /\ i = 1
    /\ local = <<>>
    /\ outfs = <<>>
    /\ log = <<>>
    /\ reclaimed = FALSE
    /\ prev = NoPrev


\* ----------------------------------------------------------- download_pdfs
\* the match without lower(): upper-case extensions are missed
IsPdfKeyCaseSensitive(key) == EndsWith(key, DotPdf)

\* key.lower().endswith(".pdf")
IsPdfKey(key) == EndsWith(Lower(key), DotPdf)

\* the local path keeping the whole key, folders included
LocalPathOfWholeKey(key) == Join(LOCAL_PDF_DIR, key)

\* os.path.join(LOCAL_PDF_DIR, os.path.basename(key))
LocalPath(key) == Join(LOCAL_PDF_DIR, Basename(key))

\* the existence test always answering no: every key is fetched again
ExistsNever(fs, path) == FALSE

\* os.path.exists(local_path)
Exists(fs, path) == path \in DOMAIN fs

\* the path put in front of the list instead of at its end
PrependPath(files, path) == <<path>> \o files

\* pdf_files.append(local_path)
AppendPath(files, path) == Append(files, path)

\* the path appended although the download failed
AfterFailedDownloadAppends(files, path) == Append(files, path)

\* pdf_files after the except branch of a failed download
AfterFailedDownload(files, path) == files

\* module setup: CUDA banner, makedirs, boto3 client, PdfConverter
Setup ==
    /\ pc = "setup"
    /\ \/ pc' = "idle"
       \/ pc' = "crashed"
    /\ log' = <<>>
    /\ UNCHANGED <<run, cuda, reserved, listing, contents, idx, pdfs, i,
                   local, outfs, reclaimed, prev>>

\* main() is entered and calls download_pdfs()
Start ==
    /\ pc = "idle"
    /\ pc' = "list"
    /\ UNCHANGED <<run, cuda, reserved, listing, contents, idx, pdfs, i,
                   local, outfs, log, reclaimed, prev>>

\* the listing error escaping download_pdfs and ending main
AfterListErrorRaises == "crashed"

\* where the run continues after the except branch returned []
AfterListError == "check"

\* s3.list_objects_v2 raises: print and return []
ListFails ==
    /\ pc = "list"
    /\ log' = log \o <<Call("list", <<>>, FALSE), Say("err_list", <<>>)>>
    /\ pdfs' = <<>>
    /\ pc' = AfterListError
    /\ UNCHANGED <<run, cuda, reserved, listing, contents, idx, i,
                   local, outfs, reclaimed, prev>>

\* s3.list_objects_v2 returns one response; pdf_files = []
ListObjects ==
    /\ pc = "list"
    /\ contents' = FirstPage(listing)
    /\ idx' = 1
    /\ pdfs' = <<>>
    /\ IF FirstPage(listing) = <<>>
       THEN /\ log' = log \o <<Call("list", <<>>, TRUE), Say("no_files", <<>>)>>
            /\ pc' = "check"
       ELSE /\ log' = Append(log, Call("list", <<>>, TRUE))
            /\ pc' = "scan"
    /\ UNCHANGED <<run, cuda, reserved, listing, i, local, outfs,
                   reclaimed, prev>>

\* one iteration of the loop over response["Contents"]: key is not a PDF
SkipKey ==
    /\ pc = "scan"
    /\ idx <= Len(contents)
    /\ ~IsPdfKey(contents[idx])
    /\ idx' = idx + 1
    /\ UNCHANGED <<pc, run, cuda, reserved, listing, contents, pdfs, i,
                   local, outfs, log, reclaimed, prev>>

\* one iteration: the local file exists, skip the download
ReuseLocal ==
    /\ pc = "scan"
    /\ idx <= Len(contents)
    /\ IsPdfKey(contents[idx])
    /\ Exists(local, LocalPath(contents[idx]))
    /\ log' = Append(log, Say("reuse", contents[idx]))
    /\ pdfs' = AppendPath(pdfs, LocalPath(contents[idx]))
    /\ idx' = idx + 1
    /\ UNCHANGED <<pc, run, cuda, reserved, listing, contents, i,
                   local, outfs, reclaimed, prev>>

\* one iteration: s3.download_file succeeds
DownloadOk ==
    /\ pc = "scan"
    /\ idx <= Len(contents)
    /\ IsPdfKey(contents[idx])
    /\ ~Exists(local, LocalPath(contents[idx]))
    /\ log' = Append(log, Call("download", contents[idx], TRUE))
    /\ local' = (LocalPath(contents[idx]) :> contents[idx]) @@ local
    /\ pdfs' = AppendPath(pdfs, LocalPath(contents[idx]))
    /\ idx' = idx + 1
    /\ UNCHANGED <<pc, run, cuda, reserved, listing, contents, i,
                   outfs, reclaimed, prev>>

\* one iteration: s3.download_file raises, nothing is left at local_path
DownloadFails ==
    /\ pc = "scan"
    /\ idx <= Len(contents)
    /\ IsPdfKey(contents[idx])
    /\ ~Exists(local, LocalPath(contents[idx]))
    /\ log' = log \o <<Call("download", contents[idx], FALSE),
                       Say("err_download", contents[idx])>>
    /\ pdfs' = AfterFailedDownload(pdfs, LocalPath(contents[idx]))
    /\ idx' = idx + 1
    /\ UNCHANGED <<pc, run, cuda, reserved, listing, contents, i,
                   local, outfs, reclaimed, prev>>

\* return pdf_files
ReturnPdfs ==
    /\ pc = "scan"
    /\ idx > Len(contents)
    /\ pc' = "check"
    /\ UNCHANGED <<run, cuda, reserved, listing, contents, idx, pdfs, i,
                   local, outfs, log, reclaimed, prev>>

\* --------------------------------------------------------- ocr_with_marker
\* the base name kept with its extension
PdfNameWithExtension(path) == Basename(path)

\* os.path.splitext(os.path.basename(pdf_path))[0]
PdfName(path) == SplitextRoot(Basename(path))

\* os.path.join(OUTPUT_DIR, pdf_name)
OutDir(path) == Join(OUTPUT_DIR, PdfName(path))

\* os.path.join(out_dir, f"{pdf_name}.md")
MdPath(path) == Join(OutDir(path), PdfName(path) \o DotMd)

\* the image files of one rendering: os.path.join(out_dir, filename) -> image
ImageFiles(dir, images) ==
    [p \in {Join(dir, f) : f \in DOMAIN images} |->
        images[CHOOSE f \in DOMAIN images : Join(dir, f) = p]]

\* the directory emptied when it already exists
MakeDirsFresh(fs, dir) == (dir :> <<>>) @@ fs

\* os.makedirs(out_dir, exist_ok=True)
MakeDirs(fs, dir) == IF dir \in DOMAIN fs THEN fs ELSE (dir :> <<>>) @@ fs

\* images first, then the markdown, over whatever the directory holds
WriteOutputs(fs, path, rendered) ==
    LET dir == OutDir(path)
        made == MakeDirs(fs, dir)
    IN  [made EXCEPT ![dir] =
            (MdPath(path) :> rendered.text)
                @@ ImageFiles(dir, rendered.images) @@ made[dir]]

\* the exception escaping ocr_with_marker and ending main
AfterConvertErrorAborts == "crashed"

\* the failed document converted again at once, before any guard call
AfterConvertErrorRetries == "convert"

\* where main continues after ocr_with_marker caught a converter exception
AfterConvertError == "guard"

\* converter(pdf_path) succeeds
ConvertOk ==
    /\ pc = "convert"
    /\ \E rendered \in Renderings :
        /\ outfs' = WriteOutputs(outfs, pdfs[i], rendered)
        /\ log' = log \o <<Ev("convert", pdfs[i], TRUE, rendered),
                           Say("saved", pdfs[i])>>
    /\ reserved' \in Levels
    /\ pc' = "guard"
    /\ UNCHANGED <<run, cuda, listing, contents, idx, pdfs, i, local,
                   reclaimed, prev>>

\* the failed document put back at the end of the list for another attempt
ConvertFailsRequeues ==
    /\ pc = "convert"
    /\ outfs' = MakeDirs(outfs, OutDir(pdfs[i]))
    /\ log' = log \o <<Call("convert", pdfs[i], FALSE),
                       Say("err_convert", pdfs[i])>>
    /\ reserved' \in Levels
    /\ pc' = "guard"
    /\ pdfs' = Append(pdfs, pdfs[i])
    /\ UNCHANGED <<run, cuda, listing, contents, idx, i, local,
                   reclaimed, prev>>

\* converter(pdf_path) raises
ConvertFails ==
    /\ pc = "convert"
    /\ outfs' = MakeDirs(outfs, OutDir(pdfs[i]))
    /\ log' = log \o <<Call("convert", pdfs[i], FALSE),
                       Say("err_convert", pdfs[i])>>
    /\ reserved' \in Levels
    /\ pc' = AfterConvertError
    /\ UNCHANGED <<run, cuda, listing, contents, idx, pdfs, i, local,
                   reclaimed, prev>>

\* ---------------------------------------------------- check_and_clear_vram
\* the comparison taken as >= instead of >
UsageHighOrEqual(res, total) == res * 100 >= ThresholdPct * total

\* usage_ratio > 0.66
UsageHigh(res, total) == res * 100 > ThresholdPct * total

\* torch.cuda.is_available() and usage_ratio > 0.66
ShouldClear(avail, res, total) == avail /\ UsageHigh(res, total)

\* ---------------------------------------------------------------------main
\* the emptiness test never taken
NoPdfsNever(files) == FALSE

\* not pdfs
NoPdfs(files) == files = <<>>

\* the loop staying on the same document
NextDocStuck(n) == n

\* the next document of enumerate(pdfs)
NextDoc(n) == n + 1

\* if not pdfs: print and return; else enter the loop
CheckEmpty ==
    /\ pc = "check"
    /\ IF NoPdfs(pdfs)
       THEN /\ log' = Append(log, Say("no_pdfs", <<>>))
            /\ pc' = "done"
            /\ i' = i
       ELSE /\ i' = 1
            /\ IF Len(pdfs) = 0
               THEN /\ log' = Append(log, Say("done", <<>>))
                    /\ pc' = "done"
               ELSE /\ log' = log
                    /\ pc' = "convert"
    /\ UNCHANGED <<run, cuda, reserved, listing, contents, idx, pdfs,
                   local, outfs, reclaimed, prev>>

\* check_and_clear_vram(), then the loop advances or main prints DONE
Guard ==
    /\ pc = "guard"
    /\ IF ShouldClear(cuda, reserved, TotalMemory)
       THEN /\ reclaimed' = TRUE
            /\ reserved' \in {r \in Levels \cup {reserved} : r <= reserved}
       ELSE /\ reclaimed' = FALSE
            /\ reserved' = reserved
    /\ i' = NextDoc(i)
    /\ IF NextDoc(i) > Len(pdfs)
       THEN /\ log' = log \o <<Call("guard", <<>>, TRUE), Say("done", <<>>)>>
            /\ pc' = "done"
       ELSE /\ log' = Append(log, Call("guard", <<>>, TRUE))
            /\ pc' = "convert"
    /\ UNCHANGED <<run, cuda, listing, contents, idx, pdfs, local, outfs,
                   prev>>

\* the program is run again on the same directories
Rerun ==
    /\ pc \in {"done", "crashed"}
    /\ run < MaxRuns
    /\ run' = run + 1
    /\ pc' = "setup"
    /\ prev' = IF \E n \in 1..Len(log) : log[n].op = "list"
               THEN [valid |-> TRUE, pdfs |-> pdfs,
                     clean |-> \A n \in 1..Len(log) :
                                 log[n].op \in {"list", "download"} => log[n].ok]
               ELSE prev
    /\ cuda' \in BOOLEAN
    /\ reserved' = 100
    /\ contents' = <<>>
    /\ idx' = 1
    /\ pdfs' = <<>>
    /\ i' = 1
    /\ log' = <<>>
    /\ reclaimed' = FALSE
    /\ UNCHANGED <<listing, local, outfs>>

Next ==
    \/ Setup
    \/ Start
    \/ ListFails
    \/ ListObjects
    \/ SkipKey
    \/ ReuseLocal
    \/ DownloadOk
    \/ DownloadFails
    \/ ReturnPdfs
    \/ CheckEmpty
    \/ ConvertOk
    \/ ConvertFails
    \/ Guard
    \/ Rerun

Spec == Init /\ [][Next]_vars

\* a run at its guard call after the failed conversion of its only
\* document, with any amount of memory reserved
GuardInit ==
    /\ pc = "guard"
    /\ run = 1
    /\ cuda \in BOOLEAN
    /\ reserved \in 0..TotalMemory
    /\ listing = <<KeyA>>
    /\ contents = <<KeyA>>
    /\ idx = 2
    /\ pdfs = <<LocalPath(KeyA)>>
    /\ i = 1
    /\ local = (LocalPath(KeyA) :> KeyA)
    /\ outfs = (OutDir(LocalPath(KeyA)) :> <<>>)
    /\ log = <<Call("list", <<>>, TRUE), Call("download", KeyA, TRUE),
               Call("convert", LocalPath(KeyA), FALSE),
               Say("err_convert", LocalPath(KeyA))>>
    /\ reclaimed = FALSE
    /\ prev = NoPrev

GuardStep == Guard

\* check_and_clear_vram applied to every usage ratio
GuardSpec == GuardInit /\ [][GuardStep]_vars

\* the steps of one process run, from module setup to the return of main
RunStep ==
    \/ Setup
    \/ Start
    \/ ListFails
    \/ ListObjects
    \/ SkipKey
    \/ ReuseLocal
    \/ DownloadOk
    \/ DownloadFails
    \/ ReturnPdfs
    \/ CheckEmpty
    \/ ConvertOk
    \/ ConvertFails
    \/ Guard

\* one process run in which every call returns: the single thread always
\* takes its next step
RunSpec == Init /\ [][RunStep]_vars /\ WF_vars(RunStep)

\* ------------------------------------------------------------ observations
Range(s) == {s[n] : n \in 1..Len(s)}

\* positions of the log that hold the given call or line
At(op) == {n \in 1..Len(log) : log[n].op = op}

\* download_pdfs has returned in this run
Returned == pc \in {"check", "convert", "guard", "done"}

ListedOk == \E n \in At("list") : log[n].ok

\* the loop over the response examined the key: it was fetched or reused
Considered(key) ==
    \E n \in At("download") \cup At("reuse") : log[n].arg = key

\* the engine invocations of this run, in order
ConvertCalls == SelectSeq(log, LAMBDA e : e.op = "convert")

FailedConverts == {n \in At("convert") : ~log[n].ok}

\* ------------------------------------------------------------------ claims
\* C1 as stated: with the listing unchanged, the second of two consecutive
\* runs of download_pdfs issues no download call and returns the same set of
\* local paths as the first.
C1_IdempotentFetch_Stated ==
    (Returned /\ prev.valid) =>
        /\ At("download") = {}
        /\ Range(pdfs) = Range(prev.pdfs)

\* C1 amended: with the listing unchanged, if the listing call and every
\* download of the first run succeeded and the listing call of the second run
\* succeeds, the second run issues no download call and returns the same set
\* of local paths.
C1_IdempotentFetch ==
    (Returned /\ prev.valid /\ prev.clean /\ ListedOk) =>
        /\ At("download") = {}
        /\ Range(pdfs) = Range(prev.pdfs)

C1_Witness ==
    /\ Returned /\ prev.valid /\ prev.clean /\ ListedOk
    /\ Cardinality(Range(pdfs)) = 2
    /\ Cardinality(At("reuse")) >= 2

\* the outputs of every successful engine call of this run that no later
\* successful call of the run overwrote are on disk as the engine gave them
OutputsWritten ==
    \A n \in At("convert") :
        (/\ log[n].ok
         /\ ~\E m \in At("convert") :
                m > n /\ log[m].ok /\ OutDir(log[m].arg) = OutDir(log[n].arg))
        => LET dir == OutDir(log[n].arg)
               res == log[n].res
           IN  /\ dir \in DOMAIN outfs
               /\ MdPath(log[n].arg) \in DOMAIN outfs[dir]
               /\ outfs[dir][MdPath(log[n].arg)] = res.text
               /\ \A img \in DOMAIN res.images :
                     /\ Join(dir, img) \in DOMAIN outfs[dir]
                     /\ outfs[dir][Join(dir, img)] = res.images[img]

\* C2: when exactly one conversion call of a run has failed and the run has
\* ended, it ended in Done, the engine was invoked on every document of the
\* working set, the outputs of the other documents are written, and exactly
\* one conversion failure was reported.
C2_FailureIsolation ==
    (Cardinality(FailedConverts) = 1 /\ pc \in {"done", "crashed"}) =>
        /\ pc = "done"
        /\ [n \in 1..Len(ConvertCalls) |-> ConvertCalls[n].arg] = pdfs
        /\ OutputsWritten
        /\ Cardinality(At("err_convert")) = 1
        /\ At("done") # {}

C2_Witness ==
    /\ pc = "done"
    /\ Len(pdfs) = 3
    /\ Cardinality(FailedConverts) = 1
    /\ ~ConvertCalls[1].ok
    /\ ConvertCalls[2].ok /\ ConvertCalls[3].ok

\* C3: once download_pdfs has returned after a successful listing call,
\* every key of the listing that ends with the PDF extension, on whatever
\* page, was considered, and its path is in the working set when its local
\* file exists.
C3_DrainsListing ==
    (Returned /\ ListedOk) =>
        \A n \in 1..Len(listing) :
            IsPdfKey(listing[n]) =>
                /\ Considered(listing[n])
                /\ Exists(local, LocalPath(listing[n]))
                       => LocalPath(listing[n]) \in Range(pdfs)

\* the extension test as the specification words it: the last four
\* characters are a dot and p, d, f in either case
HasPdfExtension(key) ==
    /\ Len(key) >= 4
    /\ key[Len(key) - 3] = "."
    /\ key[Len(key) - 2] \in {"p", "P"}
    /\ key[Len(key) - 1] \in {"d", "D"}
    /\ key[Len(key)] \in {"f", "F"}

\* C4: once download_pdfs has returned, a key of the response was considered
\* (fetched or reused) if and only if it ends, case-insensitively, with
\* ".pdf"; a response of a.pdf, b.PDF, c.txt whose fetches succeed yields
\* exactly the paths of a.pdf and b.PDF.
C4_ExtensionFiltering ==
    (Returned /\ ListedOk) =>
        /\ \A n \in 1..Len(contents) :
              Considered(contents[n]) <=> HasPdfExtension(contents[n])
        /\ (/\ Len(contents) = 3
            /\ Range(contents) = {KeyA, KeyB, KeyC}
            /\ \A n \in At("download") : log[n].ok)
           => Range(pdfs) = {Join(LOCAL_PDF_DIR, KeyA), Join(LOCAL_PDF_DIR, KeyB)}

C4_Witness ==
    /\ Returned
    /\ contents = <<KeyA, KeyB, KeyC>>
    /\ pdfs = <<Join(LOCAL_PDF_DIR, KeyA), Join(LOCAL_PDF_DIR, KeyB)>>

\* C5: when the listing holds no key with the PDF extension, the run never
\* invokes the engine or the guard, and when it is done it has reported that
\* there are no documents and has not entered the loop.
C5_EmptyStore ==
    (\A n \in 1..Len(listing) : ~HasPdfExtension(listing[n])) =>
        /\ At("convert") = {} /\ At("guard") = {}
        /\ pc \notin {"convert", "guard"}
        /\ pc = "done" => (At("no_pdfs") # {} /\ At("done") = {})

C5_Witness ==
    /\ pc = "done"
    /\ listing = <<KeyC>>
    /\ ListedOk
    /\ At("no_pdfs") # {}

\* C6: once the listing call of a run has failed, the run has not crashed,
\* the error is reported, no download and no conversion is issued, the
\* result is empty and the run is at or on its way to Done.
C6_ListingFailure ==
    (\E n \in At("list") : ~log[n].ok) =>
        /\ pc \in {"check", "done"}
        /\ At("err_list") # {}
        /\ At("download") = {} /\ At("convert") = {}
        /\ pdfs = <<>>
        /\ pc = "done" => At("no_pdfs") # {}

C6_Witness ==
    /\ pc = "done"
    /\ \E n \in At("list") : ~log[n].ok
    /\ Len(listing) >= 2
    /\ \A n \in 1..Len(listing) : IsPdfKey(listing[n])

\* C7: once download_pdfs has returned, the path of every key whose download
\* failed is absent from the working set, and every other matching key of
\* the response was downloaded or reused and has its path in the working
\* set.
C7_FetchFailureIsolation ==
    Returned =>
        \A n \in At("download") :
            ~log[n].ok =>
                /\ LocalPath(log[n].arg) \notin Range(pdfs)
                /\ \A m \in 1..Len(contents) :
                      (IsPdfKey(contents[m]) /\ contents[m] # log[n].arg) =>
                          /\ Considered(contents[m])
                          /\ (\E k \in At("download") \cup At("reuse") :
                                 log[k].arg = contents[m] /\ log[k].ok)
                             => LocalPath(contents[m]) \in Range(pdfs)

RECURSIVE IsSubseq(_, _)
IsSubseq(s, t) ==
    IF s = <<>> THEN TRUE
    ELSE IF t = <<>> THEN FALSE
    ELSE IF Head(s) = Head(t) THEN IsSubseq(Tail(s), Tail(t))
    ELSE IsSubseq(s, Tail(t))

\* C8: the engine invocations of a run are, in order, the leading documents
\* of the working set, and the working set is an order-preserving
\* subsequence of the local paths of the listing.
C8_ProcessingOrder ==
    /\ Len(ConvertCalls) <= Len(pdfs)
    /\ \A n \in 1..Len(ConvertCalls) : ConvertCalls[n].arg = pdfs[n]
    /\ pc = "done" => Len(ConvertCalls) = Len(pdfs)
    /\ IsSubseq(pdfs, [n \in 1..Len(listing) |-> LocalPath(listing[n])])

C8_Witness ==
    /\ pc = "done"
    /\ listing = <<KeyB, KeyC, KeyA>>
    /\ Len(ConvertCalls) = 2
    /\ ~ConvertCalls[1].ok
    /\ ConvertCalls[1].arg = LocalPath(KeyB)
    /\ ConvertCalls[2].arg = LocalPath(KeyA)

\* C9: in a run the engine is never invoked twice on one local path, only on
\* documents of the working set, and when the run is done on every one of
\* them.
C9_ExactlyOnce ==
    /\ \A m, n \in At("convert") : log[m].arg = log[n].arg => m = n
    /\ \A n \in At("convert") : log[n].arg \in Range(pdfs)
    /\ pc = "done" => \A p \in Range(pdfs) : \E n \in At("convert") : log[n].arg = p

\* the convert and guard calls of this run, in order
LoopCalls == SelectSeq(log, LAMBDA e : e.op \in {"convert", "guard"})

\* C10: the calls of the loop alternate convert, guard, convert, guard, ...:
\* a guard call follows every conversion, failed or not, none precedes the
\* first conversion, and at Done a guard call has followed the last document.
C10_GuardInterleaving ==
    /\ \A n \in 1..Len(LoopCalls) :
          LoopCalls[n].op = IF n % 2 = 1 THEN "convert" ELSE "guard"
    /\ pc = "guard" => Len(LoopCalls) % 2 = 1
    /\ pc \in {"convert", "done"} => Len(LoopCalls) % 2 = 0
    /\ pc = "done" => Len(LoopCalls) = 2 * Len(pdfs)

C10_Witness ==
    /\ pc = "done"
    /\ Len(LoopCalls) = 6
    /\ ~LoopCalls[1].ok /\ LoopCalls[3].ok /\ ~LoopCalls[5].ok

\* C11 as stated: a guard call reclaims only when reserved/total is at or
\* above two-thirds, never below; it does nothing without an accelerator.
C11_GuardThreshold_Stated ==
    [][pc = "guard" =>
          /\ reclaimed' => (cuda /\ reserved * 3 >= 2 * TotalMemory)
          /\ ~cuda => (~reclaimed' /\ reserved' = reserved)]_vars

\* C11 amended: a guard call reclaims exactly when an accelerator is present
\* and reserved/total is strictly above 0.66, so among the ratios 0.50, 0.66
\* and 0.90 only at 0.90; without an accelerator or at or below 0.66 it
\* leaves the memory alone, and a reclamation never raises the reserved
\* memory.
C11_GuardThreshold ==
    [][pc = "guard" =>
          /\ reclaimed' <=> (cuda /\ reserved * 100 > 66 * TotalMemory)
          /\ reserved * 100 = 50 * TotalMemory => ~reclaimed'
          /\ reserved * 100 = 66 * TotalMemory => ~reclaimed'
          /\ reserved * 100 = 90 * TotalMemory => (reclaimed' <=> cuda)
          /\ ~reclaimed' => reserved' = reserved
          /\ reserved' <= reserved]_vars

C11_Witness ==
    /\ cuda /\ reclaimed
    /\ pc = "done"
    /\ reserved * 100 = 90 * TotalMemory

\* the step is a successful conversion: the engine call and the saved line
\* are the two entries the step adds to the log
ConvertedOk ==
    /\ pc = "convert"
    /\ Len(log') = Len(log) + 2
    /\ log'[Len(log) + 1].op = "convert"
    /\ log'[Len(log) + 1].ok

\* the step is a failed conversion
ConvertedFail ==
    /\ pc = "convert"
    /\ Len(log') = Len(log) + 2
    /\ log'[Len(log) + 1].op = "convert"
    /\ ~log'[Len(log) + 1].ok

\* the base name of a local document with its four-character extension cut
StemOf(path) == SubSeq(Basename(path), 1, Len(Basename(path)) - 4)

\* OUTPUT_DIR/B for the base name B of the document
DirOf(path) == OUTPUT_DIR \o <<"/">> \o StemOf(path)

\* the files of a directory, none when it does not exist
FilesOf(fs, dir) == IF dir \in DOMAIN fs THEN fs[dir] ELSE <<>>

\* C12: a successful conversion of a document with base name B leaves the
\* markdown at OUTPUT_DIR/B/B.md and every image at OUTPUT_DIR/B/<key>, and
\* creates or changes no file but these, in any run.
C12_OutputPaths ==
    [][ConvertedOk =>
          LET e == log'[Len(log) + 1]
              dir == DirOf(e.arg)
              md == dir \o <<"/">> \o StemOf(e.arg) \o <<".", "m", "d">>
              imgs == {dir \o <<"/">> \o k : k \in DOMAIN e.res.images}
              written == (md :> e.res.text)
                  @@ [p \in imgs |-> e.res.images[SubSeq(p, Len(dir) + 2, Len(p))]]
          IN  /\ dir \in DOMAIN outfs'
              /\ outfs'[dir] = written @@ FilesOf(outfs, dir)
              /\ \A d \in DOMAIN outfs' \ {dir} :
                    d \in DOMAIN outfs /\ outfs'[d] = outfs[d]
              /\ DOMAIN outfs \subseteq DOMAIN outfs']_vars

C12_Witness ==
    /\ run = 2
    /\ pc = "guard"
    /\ log[Len(log)].op = "saved"
    /\ log[Len(log)].arg = LocalPath(KeyB)
    /\ DirOf(LocalPath(KeyB)) \in DOMAIN outfs
    /\ Cardinality(DOMAIN outfs[DirOf(LocalPath(KeyB))]) = 3

\* C13 as stated: a failed conversion creates and writes nothing under the
\* output root, logs the failure with the document's path, and main goes on.
C13_FailureNoOutput_Stated ==
    [][ConvertedFail =>
          /\ outfs' = outfs
          /\ log'[Len(log')].op = "err_convert"
          /\ log'[Len(log')].arg = pdfs[i]
          /\ pc' = "guard"]_vars

\* C13 amended: a failed conversion creates or changes no file under the
\* output root; it only creates the document's output directory, empty, when
\* that is absent; it logs the failure with the document's path, and main
\* goes on to the guard and the next document.
C13_FailureNoOutput ==
    [][ConvertedFail =>
          /\ DOMAIN outfs' = DOMAIN outfs \cup {DirOf(pdfs[i])}
          /\ \A d \in DOMAIN outfs' : FilesOf(outfs', d) = FilesOf(outfs, d)
          /\ log'[Len(log')].op = "err_convert"
          /\ log'[Len(log')].arg = pdfs[i]
          /\ pc' = "guard"
          /\ pdfs' = pdfs /\ i' = i]_vars

C13_Witness ==
    /\ pc = "guard"
    /\ log[Len(log)].op = "err_convert"
    /\ log[Len(log)].arg = LocalPath(KeyA)
    /\ DirOf(LocalPath(KeyA)) \in DOMAIN outfs
    /\ outfs[DirOf(LocalPath(KeyA))] = <<>>

\* C14: when a document that an earlier run converted is successfully
\* converted again, its output directory then holds exactly the markdown
\* file and the images of this conversion.
C14_FullOverwrite ==
    [][(/\ ConvertedOk
        /\ \A n \in At("convert") : DirOf(log[n].arg) # DirOf(pdfs[i])
        /\ FilesOf(outfs, DirOf(pdfs[i])) # <<>>) =>
          LET e == log'[Len(log) + 1]
              dir == DirOf(e.arg)
              md == dir \o <<"/">> \o StemOf(e.arg) \o <<".", "m", "d">>
              imgs == {dir \o <<"/">> \o k : k \in DOMAIN e.res.images}
          IN  /\ DOMAIN outfs'[dir] = {md} \cup imgs
              /\ outfs'[dir][md] = e.res.text
              /\ \A k \in DOMAIN e.res.images :
                    outfs'[dir][dir \o <<"/">> \o k] = e.res.images[k]]_vars

\* the orchestrator state of a position of the process
Phase(p) ==
    CASE p = "idle" -> "Idle"
      [] p \in {"list", "scan", "check"} -> "Discovering"
      [] p \in {"convert", "guard"} -> "Processing"
      [] p = "done" -> "Done"
      [] OTHER -> p

PhaseOrder ==
    {<<"setup", "Idle">>, <<"setup", "crashed">>, <<"Idle", "Discovering">>,
     <<"Discovering", "Processing">>, <<"Discovering", "Done">>,
     <<"Processing", "Done">>}

\* how far a position is from the end of the run
PcRank(p) ==
    CASE p = "setup" -> 6
      [] p = "idle" -> 5
      [] p = "list" -> 4
      [] p = "scan" -> 3
      [] p = "check" -> 2
      [] p \in {"convert", "guard"} -> 1
      [] OTHER -> 0

\* the loop iterations and calls still to come at a position
Remaining(p, at, n) ==
    CASE p = "scan" -> Len(contents) + 1 - at
      [] p = "convert" -> 2 * (Len(pdfs) + 1 - n)
      [] p = "guard" -> 2 * (Len(pdfs) + 1 - n) - 1
      [] OTHER -> 0

\* C15: a run in which every call returns moves only Idle -> Discovering ->
\* (Processing) -> Done and takes no step after Done; from Idle on it always
\* has a next step until Done, whatever fails, and every step brings it
\* nearer to Done, so it reaches Done, once.
C15_Termination ==
    /\ [][Phase(pc') = Phase(pc) \/ <<Phase(pc), Phase(pc')>> \in PhaseOrder]_vars
    /\ [][pc # "done"]_vars
    /\ [][\/ PcRank(pc') < PcRank(pc)
          \/ /\ PcRank(pc') = PcRank(pc)
             /\ Remaining(pc', idx', i') < Remaining(pc, idx, i)]_vars
    /\ [](Remaining(pc, idx, i) >= 0)
    /\ [](pc \notin {"setup", "crashed", "done"} => ENABLED RunStep)

C15_Witness ==
    /\ pc = "done"
    /\ Len(contents) = 3
    /\ Len(pdfs) = 2
    /\ \E n \in At("download") : ~log[n].ok
    /\ Cardinality(FailedConverts) = 2

\* the object-store calls and local-file decisions of this run
StoreCalls == At("list") \cup At("download") \cup At("reuse")

\* C16: every object-store call of a run precedes its first engine
\* invocation, and from the first invocation on neither the working set nor
\* the local input directory changes.
C16_DiscoveryFirst ==
    /\ [](\A s \in StoreCalls : \A c \in At("convert") : s < c)
    /\ [][(pc \in {"convert", "guard"}) =>
            (pdfs' = pdfs /\ local' = local /\ contents' = contents)]_vars

C16_Witness ==
    /\ pc = "done"
    /\ run = 2
    /\ Len(pdfs) = 3
    /\ Cardinality(At("download")) >= 1
    /\ Cardinality(At("reuse")) >= 1
    /\ Cardinality(At("convert")) = 3

\* the local file of a key: LOCAL_PDF_DIR/<base name of the key>
FileOf(key) == LOCAL_PDF_DIR \o <<"/">> \o Basename(key)

\* C17: when the loop examines a matching key whose local file exists, the
\* step issues no download, leaves the local directory as it is and appends
\* the path to the working set.
C17_ReuseUntouched ==
    [][(/\ pc = "scan"
        /\ idx <= Len(contents)
        /\ HasPdfExtension(contents[idx])
        /\ FileOf(contents[idx]) \in DOMAIN local) =>
          (/\ local' = local
           /\ pdfs' = Append(pdfs, FileOf(contents[idx]))
           /\ Len(log') = Len(log) + 1
           /\ log'[Len(log')].op = "reuse"
           /\ log'[Len(log')].arg = contents[idx]
           /\ idx' = idx + 1)]_vars

C17_Witness ==
    /\ run = 2
    /\ pc = "scan"
    /\ Len(log) = 3
    /\ log[3].op = "reuse" /\ log[3].arg = KeyB
    /\ log[2].op = "reuse" /\ log[2].arg = KeyDA
    /\ local[FileOf(KeyDA)] = KeyA

\* C18: module setup runs once, at the start of a process, and touches
\* neither directory; a run whose engine construction failed has issued no
\* listing, download or conversion and written no output, and it only ends.
C18_SetupFirst ==
    /\ [](pc \in {"setup", "crashed"} => log = <<>>)
    /\ [](pc \in {"setup", "crashed"} => (pdfs = <<>> /\ contents = <<>>))
    /\ [][pc = "setup" => (local' = local /\ outfs' = outfs)]_vars
    /\ [][pc' = "setup" => run' = run + 1]_vars
    /\ [][pc = "crashed" => run' = run + 1]_vars

C18_Witness ==
    /\ pc = "crashed"
    /\ run = 2
    /\ DOMAIN local # {}
    /\ DOMAIN outfs # {}

\* C19: once download_pdfs has returned, every path of the working set is a
\* file of the local input directory, and no engine invocation of the run is
\* on a file holding the bytes of a key whose download failed in this run.
C19_PathsExist ==
    /\ Returned => \A p \in Range(pdfs) : p \in DOMAIN local
    /\ \A c \in At("convert") :
          /\ log[c].arg \in DOMAIN local
          /\ \A d \in At("download") :
                ~log[d].ok => local[log[c].arg] # log[d].arg

C19_Witness ==
    /\ pc = "done"
    /\ \E d \in At("download") : ~log[d].ok /\ log[d].arg = KeyA
    /\ \E c \in At("convert") : log[c].arg = FileOf(KeyA)
    /\ Len(pdfs) = 2

\* the successful downloads of this run into the given path
FetchesInto(path) ==
    {n \in At("download") : log[n].ok /\ FileOf(log[n].arg) = path}

\* C20: in one run at most one successful download goes to any local path;
\* when two matching keys of the response share a base name and the earlier
\* one was fetched, the later one is reused and not downloaded, the file
\* holds the bytes of the earlier one, and the path is in the working set
\* once for each of the two.
C20_SharedBaseName ==
    /\ \A n \in At("download") : Cardinality(FetchesInto(FileOf(log[n].arg))) <= 1
    /\ Returned =>
          \A m, n \in 1..Len(contents) :
              (/\ m < n
               /\ HasPdfExtension(contents[m]) /\ HasPdfExtension(contents[n])
               /\ Basename(contents[m]) = Basename(contents[n])
               /\ \E d \in At("download") : log[d].ok /\ log[d].arg = contents[m])
              => /\ \E r \in At("reuse") : log[r].arg = contents[n]
                 /\ ~\E d \in At("download") : log[d].arg = contents[n]
                 /\ local[FileOf(contents[m])] = contents[m]
                 /\ Cardinality({k \in 1..Len(pdfs) :
                                    pdfs[k] = FileOf(contents[m])}) = 2

C20_Witness ==
    /\ Returned
    /\ contents = <<KeyDA, KeyB, KeyA>>
    /\ pdfs = <<FileOf(KeyA), FileOf(KeyB), FileOf(KeyA)>>
    /\ local[FileOf(KeyA)] = KeyDA
    /\ Cardinality(At("download")) = 2

====
